---- MODULE Spec2Model ----
(***************************************************************************)
(* Model of globaleaks/rest/decorators.py: the per-request decorator chain *)
(* built by decorate_method (rate limit, token gate, authentication,       *)
(* response cache, cache invalidation, endpoint refresh) around a REST     *)
(* handler method, executed on a single-threaded cooperative reactor.      *)
(*                                                                         *)
(* One Request step runs the whole synchronous part of a call: every       *)
(* wrapper from the outermost one down to the handler, up to the point     *)
(* where the handler returns, raises, or returns an unfired Deferred.      *)
(* One Resolve step fires such a Deferred and runs the callbacks the       *)
(* wrappers attached to it.  Time is counted in whole seconds.             *)
(***************************************************************************)
EXTENDS Integers, Sequences, FiniteSets, TLC

VARIABLES
    enable_api_cache, \* State.settings.enable_api_cache, fixed at start-up
    now,              \* datetime_now(), in seconds
    ratelimit,        \* session -> [time, count]: ratelimit_time / ratelimit_count
    cache,            \* Cache: (tid, path, language) -> [ctype, body], a partial map
    inflight,         \* calls whose handler returned a Deferred that has not fired
    last,             \* observation: the call handled by the latest step
    returned,         \* observation: key -> what the latest successful cached GET
                      \*   stored/returned since the tenant's last invalidation
    burst,            \* observation: session -> rate-limit evaluations at instant now
    evals             \* observation: session -> rate-limit evaluations since the
                      \*   window start was last moved

vars == <<enable_api_cache, now, ratelimit, cache, inflight, last, returned, burst,
          evals>>

\* ------------------------------------------------------------------ bounds
MaxInflight == 2     \* suspended calls at a time
MaxCount == 7        \* largest ratelimit_count explored
MaxTime == 32        \* last instant explored

\* ------------------------------------------------------- program constants
RateLimitWindow == 30      \* timedelta(seconds=30)
RateLimitThreshold == 5    \* (count / period) > 5
RateLimitMinPeriod == 1    \* max(..., 1)

StaffRoles == {"admin", "receiver", "custodian"}
SessionRoles == StaffRoles \cup {"whistleblower"}
RoleNames == SessionRoles \cup {"any", "user"}
Tenants == {1, 2}
Methods == {"get", "post", "options"}

\* self.session is None
NoSession == [role |-> "none", tid |-> 0]
AllSessions == [role : SessionRoles, tid : Tenants]

\* values a handler returns: a dict/list, or an already serialised string
DictA == [type |-> "dict", val |-> <<"a">>]
StrA == [type |-> "str", val |-> <<"a">>]
NoBody == [type |-> "none", val |-> <<>>]
NoEntry == [ctype |-> "", body |-> NoBody]

Max(a, b) == IF a >= b THEN a ELSE b

\* json.dumps(data, cls=JSONEncoder): a dict becomes the string of its encoding
JsonDumps(data) == [type |-> "str", val |-> <<"{">> \o data.val \o <<"}">>]

\* ------------------------------------------------------------ Cache store
Key(req) == <<req.tid, req.path, req.language>>

CacheHas(c, key) == key \in DOMAIN c

CacheGet(c, key) == c[key]

CacheSet(c, key, ctype, body) ==
    [k \in DOMAIN c \cup {key} |->
        IF k = key THEN [ctype |-> ctype, body |-> body] ELSE c[k]]

CacheInvalidate(c, tid) ==
    [k \in {x \in DOMAIN c : x[1] # tid} |-> c[k]]

\* --------------------------------------------------------- decorate_method
\* The wrappers around the handler, innermost first, in the order
\* decorate_method applies them.
CacheLayers(h, method, enabled) ==
    IF enabled
    THEN IF method = "get"
         THEN (IF h.cache_resource THEN <<"cache_get">> ELSE <<>>)
         ELSE (IF h.invalidate_cache THEN <<"cache_invalidate">> ELSE <<>>)
              \o (IF h.refresh_connection_endpoints
                  THEN <<"refresh_connection_endpoints">> ELSE <<>>)
    ELSE <<>>

\* mutant: the rate limiter is installed on every method
GateLayers_rate_limit_always(h, method) ==
    IF method \notin {"get", "options"} \/ h.require_token
    THEN <<"require_token", "rate_limit">>
    ELSE <<"rate_limit">>

GateLayers(h, method) ==
    IF method \notin {"get", "options"} \/ h.require_token
    THEN <<"require_token", "rate_limit">>
    ELSE <<>>

\* mutant: authentication applied first, so it ends up innermost
DecorateMethod_auth_innermost(h, method, enabled) ==
    <<"authentication">> \o CacheLayers(h, method, enabled) \o GateLayers(h, method)

DecorateMethod(h, method, enabled) ==
    CacheLayers(h, method, enabled) \o <<"authentication">> \o GateLayers(h, method)

\* ------------------------------------------------------------- one call
Enter(ctx, layer) == [ctx EXCEPT !.trace = Append(@, layer)]

Raise(ctx, err) == [ctx EXCEPT !.status = "rejected", !.error = err]

\* the handler's outcome, immediate or when its Deferred fires
HandlerResult(ctx, out) ==
    IF out.ok
    THEN [ctx EXCEPT !.status = "ok", !.body = out.data,
                     !.hdr = IF out.hdr # "" THEN out.hdr ELSE @]
    ELSE [ctx EXCEPT !.status = "failed", !.error = "HandlerError"]

Handler(ctx, req) ==
    LET c1 == Enter(ctx, "handler")
    IN  IF req.beh.mode = "defer"
        THEN [c1 EXCEPT !.status = "pending"]
        ELSE HandlerResult(c1, req.beh.out)

\* decorator_rate_limit, lines 19-23
\* mutant: the reset moves the window start but keeps the counter
RateLimitUpdate_keeps_count(s, t) ==
    LET r == IF t > s.time + RateLimitWindow
             THEN [time |-> t, count |-> s.count]
             ELSE s
    IN  [r EXCEPT !.count = @ + 1]

RateLimitUpdate(s, t) ==
    LET r == IF t > s.time + RateLimitWindow
             THEN [time |-> t, count |-> 0]
             ELSE s
    IN  [r EXCEPT !.count = @ + 1]

\* mutant: the threshold itself is already rejected
RateLimitExceeded_at_threshold(s, t) ==
    LET period == Max(t - s.time, RateLimitMinPeriod)
    IN  s.count >= RateLimitThreshold * period

\* decorator_rate_limit, lines 25-27: count / period > 5
RateLimitExceeded(s, t) ==
    LET period == Max(t - s.time, RateLimitMinPeriod)
    IN  s.count > RateLimitThreshold * period

\* mutant: every session is rate limited, whatever its role
RateLimited_any_session(req) ==
    req.session # NoSession

RateLimited(req) ==
    req.session # NoSession /\ req.session.role = "whistleblower"

\* mutant: a session no longer exempts the request from the token
TokenMissing_ignoring_session(req) ==
    ~req.uri_token /\ ~req.token

\* decorator_require_token, line 39
TokenMissing(req) ==
    req.session = NoSession /\ ~req.uri_token /\ ~req.token

\* mutant: the tenant of the session is not compared with the request's
Authorized_any_tenant(roles, session, tid) ==
    \/ "any" \in roles
    \/ /\ session # NoSession
       /\ \/ ("user" \in roles /\ session.role \in {"admin", "receiver", "custodian"})
          \/ session.role \in roles

\* decorator_authentication, lines 50-54
Authorized(roles, session, tid) ==
    \/ "any" \in roles
    \/ /\ session # NoSession /\ session.tid = tid
       /\ \/ ("user" \in roles /\ session.role \in {"admin", "receiver", "custodian"})
          \/ session.role \in roles

\* callback of decorator_cache_get, lines 70-76
CacheGetCallback(ctx, req) ==
    LET isStruct == ctx.body.type = "dict"
        hdr == IF isStruct THEN "application/json" ELSE ctx.hdr
        data == IF isStruct THEN JsonDumps(ctx.body) ELSE ctx.body
        c == IF hdr = "" THEN "application/json" ELSE hdr
    IN  [ctx EXCEPT !.hdr = hdr, !.body = data,
                    !.cache = CacheSet(@, Key(req), c, data),
                    !.stored = [ctype |-> c, body |-> data],
                    !.trace = Append(@, "Cache.set")]

\* callback of decorator_refresh_connection_endpoints, lines 106-108
RefreshCallback(ctx, out) ==
    LET c1 == Enter(ctx, "State.refresh_connection_endpoints")
    IN  IF out.refresh_ok
        THEN c1
        ELSE [c1 EXCEPT !.status = "failed", !.error = "RefreshError",
                        !.body = NoBody]

ApplyCallback(cb, ctx, req, out) ==
    IF cb = "cache_set" THEN CacheGetCallback(ctx, req) ELSE RefreshCallback(ctx, out)

\* Deferred.addCallback: runs at once on a fired Deferred, is kept on an
\* unfired one, and is skipped on a failure
AddCallback(ctx, cb, req) ==
    CASE ctx.status = "ok" -> ApplyCallback(cb, ctx, req, req.beh.out)
      [] ctx.status = "pending" -> [ctx EXCEPT !.callbacks = Append(@, cb)]
      [] OTHER -> ctx

RECURSIVE RunCallbacks(_, _, _, _)
RunCallbacks(cbs, ctx, req, out) ==
    IF cbs = <<>> \/ ctx.status # "ok"
    THEN ctx
    ELSE RunCallbacks(Tail(cbs), ApplyCallback(Head(cbs), ctx, req, out), req, out)

RECURSIVE Run(_, _, _, _, _)

\* mutant: a rejected request is not written back to the session
decorator_rate_limit_reject_uncounted(chain, i, ctx, req, t) ==
    LET c1 == Enter(ctx, "rate_limit")
    IN  IF RateLimited(req)
        THEN LET s == RateLimitUpdate(c1.rl[req.session], t)
             IN  IF RateLimitExceeded(s, t)
                 THEN Raise(c1, "NotAuthenticated")
                 ELSE Run(chain, i - 1, [c1 EXCEPT !.rl[req.session] = s], req, t)
        ELSE Run(chain, i - 1, c1, req, t)

decorator_rate_limit(chain, i, ctx, req, t) ==
    LET c1 == Enter(ctx, "rate_limit")
    IN  IF RateLimited(req)
        THEN LET s == RateLimitUpdate(c1.rl[req.session], t)
                 c2 == [c1 EXCEPT !.rl[req.session] = s]
             IN  IF RateLimitExceeded(s, t)
                 THEN Raise(c2, "NotAuthenticated")
                 ELSE Run(chain, i - 1, c2, req, t)
        ELSE Run(chain, i - 1, c1, req, t)

decorator_require_token(chain, i, ctx, req, t) ==
    LET c1 == Enter(ctx, "require_token")
    IN  IF TokenMissing(req)
        THEN Raise(c1, "TokenFailure")
        ELSE Run(chain, i - 1, c1, req, t)

decorator_authentication(chain, i, ctx, req, t) ==
    LET c1 == Enter(ctx, "authentication")
    IN  IF Authorized(req.h.check_roles, req.session, req.tid)
        THEN Run(chain, i - 1, c1, req, t)
        ELSE Raise(c1, "NotAuthenticated")

\* mutant: a hit returns the stored body but leaves the content-type unset
decorator_cache_get_no_header(chain, i, ctx, req, t) ==
    LET c1 == Enter(ctx, "cache_get")
    IN  IF ~CacheHas(c1.cache, Key(req))
        THEN AddCallback(Run(chain, i - 1, [c1 EXCEPT !.lookup = "miss"], req, t),
                         "cache_set", req)
        ELSE LET c == CacheGet(c1.cache, Key(req))
             IN  [c1 EXCEPT !.lookup = "hit", !.status = "ok", !.body = c.body]

\* mutant: the store runs on failures too (addBoth instead of addCallback)
decorator_cache_get_add_both(chain, i, ctx, req, t) ==
    LET c1 == Enter(ctx, "cache_get")
    IN  IF ~CacheHas(c1.cache, Key(req))
        THEN LET r == Run(chain, i - 1, [c1 EXCEPT !.lookup = "miss"], req, t)
             IN  IF r.status = "failed"
                 THEN [r EXCEPT !.cache = CacheSet(@, Key(req), "application/json", r.body),
                                !.trace = Append(@, "Cache.set")]
                 ELSE AddCallback(r, "cache_set", req)
        ELSE LET c == CacheGet(c1.cache, Key(req))
             IN  [c1 EXCEPT !.lookup = "hit", !.status = "ok",
                            !.hdr = c.ctype, !.body = c.body]

\* mutant: the store is never consulted, every GET runs the handler
decorator_cache_get_always_miss(chain, i, ctx, req, t) ==
    LET c1 == Enter(ctx, "cache_get")
    IN  AddCallback(Run(chain, i - 1, [c1 EXCEPT !.lookup = "miss"], req, t),
                    "cache_set", req)

decorator_cache_get(chain, i, ctx, req, t) ==
    LET c1 == Enter(ctx, "cache_get")
    IN  IF ~CacheHas(c1.cache, Key(req))
        THEN AddCallback(Run(chain, i - 1, [c1 EXCEPT !.lookup = "miss"], req, t),
                         "cache_set", req)
        ELSE LET c == CacheGet(c1.cache, Key(req))
             IN  [c1 EXCEPT !.lookup = "hit", !.status = "ok",
                            !.hdr = c.ctype, !.body = c.body]

\* mutant: only the entry of the request's own path and language is dropped
decorator_cache_invalidate_path_only(chain, i, ctx, req, t) ==
    LET c1 == Enter(ctx, "cache_invalidate")
        c2 == IF req.h.invalidate_cache
              THEN [c1 EXCEPT !.cache = [k \in DOMAIN @ \ {Key(req)} |-> @[k]],
                              !.trace = Append(@, "Cache.invalidate")]
              ELSE c1
    IN  Run(chain, i - 1, c2, req, t)

\* mutant: the tenant's entries are dropped only once the handler has succeeded
decorator_cache_invalidate_on_success(chain, i, ctx, req, t) ==
    LET c1 == Enter(ctx, "cache_invalidate")
        r == Run(chain, i - 1, c1, req, t)
    IN  IF req.h.invalidate_cache /\ r.status = "ok"
        THEN [r EXCEPT !.cache = CacheInvalidate(@, req.tid),
                       !.trace = Append(@, "Cache.invalidate")]
        ELSE r

decorator_cache_invalidate(chain, i, ctx, req, t) ==
    LET c1 == Enter(ctx, "cache_invalidate")
        c2 == IF req.h.invalidate_cache
              THEN [c1 EXCEPT !.cache = CacheInvalidate(@, req.tid),
                              !.trace = Append(@, "Cache.invalidate")]
              ELSE c1
    IN  Run(chain, i - 1, c2, req, t)

decorator_refresh_connection_endpoints(chain, i, ctx, req, t) ==
    LET c1 == Enter(ctx, "refresh_connection_endpoints")
    IN  AddCallback(Run(chain, i - 1, c1, req, t), "refresh", req)

\* calling the i-th wrapper of the chain (0: the handler itself)
Run(chain, i, ctx, req, t) ==
    IF i = 0 THEN Handler(ctx, req)
    ELSE CASE chain[i] = "rate_limit" -> decorator_rate_limit(chain, i, ctx, req, t)
           [] chain[i] = "require_token" -> decorator_require_token(chain, i, ctx, req, t)
           [] chain[i] = "authentication" -> decorator_authentication(chain, i, ctx, req, t)
           [] chain[i] = "cache_get" -> decorator_cache_get(chain, i, ctx, req, t)
           [] chain[i] = "cache_invalidate" -> decorator_cache_invalidate(chain, i, ctx, req, t)
           [] OTHER -> decorator_refresh_connection_endpoints(chain, i, ctx, req, t)

\* ---------------------------------------------------------------- actions
H(roles, cr, ic, rf, rt) ==
    [check_roles |-> roles, cache_resource |-> cr, invalidate_cache |-> ic,
     refresh_connection_endpoints |-> rf, require_token |-> rt]

Out(ok, data, hdr, rok) == [ok |-> ok, data |-> data, hdr |-> hdr, refresh_ok |-> rok]

NoOut == Out(FALSE, NoBody, "", TRUE)
Sync(out) == [mode |-> "sync", out |-> out]
Defer == [mode |-> "defer", out |-> NoOut]

Req(h, method, session, key, token, uri_token, beh) ==
    [h |-> h, method |-> method, session |-> session, tid |-> key[1],
     path |-> key[2], language |-> key[3], query |-> "", token |-> token,
     uri_token |-> uri_token, beh |-> beh]

\* the same request with a query string after the path
WithQuery(req, q) == [req EXCEPT !.query = q]

NoReq == Req(H({}, FALSE, FALSE, FALSE, FALSE), "none", NoSession,
             <<0, "", "">>, FALSE, FALSE, Sync(NoOut))

Ctx0 == [rl |-> ratelimit, cache |-> cache, trace |-> <<>>, status |-> "run",
         error |-> "", hdr |-> "", body |-> NoBody, callbacks |-> <<>>,
         lookup |-> "", stored |-> NoEntry]

Has(seq, x) == \E j \in 1..Len(seq) : seq[j] = x

Observe(kind, req, chain, ctx, out) ==
    [kind |-> kind, at |-> now, req |-> req, chain |-> chain, out |-> out,
     trace |-> ctx.trace,
     status |-> ctx.status, error |-> ctx.error, hdr |-> ctx.hdr,
     body |-> ctx.body, lookup |-> ctx.lookup, stored |-> ctx.stored]

\* suspended calls of a tenant whose cache has been invalidated meanwhile
MarkStale(pending, ctx, tid) ==
    IF Has(ctx.trace, "Cache.invalidate")
    THEN [j \in 1..Len(pending) |->
            IF pending[j].req.tid = tid
            THEN [pending[j] EXCEPT !.stale = TRUE] ELSE pending[j]]
    ELSE pending

Returned(ret, ctx, req) ==
    CASE Has(ctx.trace, "Cache.invalidate") -> CacheInvalidate(ret, req.tid)
      [] ctx.status = "ok" /\ ctx.lookup = "hit" ->
            CacheSet(ret, Key(req), ctx.hdr, ctx.body)
      [] ctx.status = "ok" /\ ctx.lookup = "miss" ->
            CacheSet(ret, Key(req), ctx.stored.ctype, ctx.body)
      [] OTHER -> ret

\* a call arrives and runs until it returns, raises, or its handler suspends
Request(req) ==
    \E chain \in {DecorateMethod(req.h, req.method, enable_api_cache)} :
    \E ctx \in {Run(chain, Len(chain), Ctx0, req, now)} :
        /\ (RateLimited(req) /\ Has(chain, "rate_limit"))
              => ratelimit[req.session].count < MaxCount
        /\ ctx.status = "pending" => Len(inflight) < MaxInflight
        /\ ratelimit' = ctx.rl
        /\ cache' = ctx.cache
        /\ inflight' =
              IF ctx.status = "pending"
              THEN Append(MarkStale(inflight, ctx, req.tid),
                          [req |-> req, chain |-> chain, trace |-> ctx.trace,
                           callbacks |-> ctx.callbacks, lookup |-> ctx.lookup,
                           stale |-> FALSE])
              ELSE MarkStale(inflight, ctx, req.tid)
        /\ last' = Observe("request", req, chain, ctx, req.beh.out)
        /\ returned' = Returned(returned, ctx, req)
        /\ burst' = IF RateLimited(req) /\ Has(ctx.trace, "rate_limit")
                    THEN [burst EXCEPT ![req.session] = @ + 1]
                    ELSE burst
        /\ evals' = IF RateLimited(req) /\ Has(ctx.trace, "rate_limit")
                    THEN [evals EXCEPT ![req.session] =
                            IF ctx.rl[req.session].time # ratelimit[req.session].time
                            THEN 1 ELSE @ + 1]
                    ELSE evals
        /\ UNCHANGED <<enable_api_cache, now>>

\* the Deferred of the i-th suspended call fires with outcome out
Resolve(i, out) ==
    /\ i \in 1..Len(inflight)
    /\ LET p == inflight[i]
           c0 == [Ctx0 EXCEPT !.trace = Append(p.trace, "resolved"),
                              !.lookup = p.lookup]
       IN  \E ctx \in {RunCallbacks(p.callbacks, HandlerResult(c0, out), p.req, out)} :
           /\ cache' = ctx.cache
           /\ inflight' = [j \in 1..(Len(inflight) - 1) |->
                              IF j < i THEN inflight[j] ELSE inflight[j + 1]]
           /\ last' = Observe("resolve", p.req, p.chain, ctx, out)
           /\ returned' = Returned(returned, ctx, p.req)
    /\ UNCHANGED <<enable_api_cache, now, ratelimit, burst, evals>>

\* one second passes
Tick ==
    /\ now < MaxTime
    /\ now' = now + 1
    /\ burst' = [s \in AllSessions |-> 0]
    /\ UNCHANGED <<enable_api_cache, ratelimit, cache, inflight, last, returned, evals>>

Init ==
    /\ enable_api_cache \in BOOLEAN
    /\ now = 0
    /\ ratelimit = [s \in AllSessions |-> [time |-> 0, count |-> 0]]
    /\ cache = <<>>
    /\ inflight = <<>>
    /\ last = Observe("init", NoReq, <<>>, Ctx0, NoOut)
    /\ returned = <<>>
    /\ burst = [s \in AllSessions |-> 0]
    /\ evals = [s \in AllSessions |-> 0]

\* ---------------------------------------------- inputs of the specifications
K1 == <<1, "p1", "en">>
K2 == <<1, "p2", "it">>
K3 == <<2, "p1", "en">>
Keys == {K1, K2, K3}

HCached == H({"any"}, TRUE, FALSE, FALSE, FALSE)
HInvalidate == H({"any"}, FALSE, TRUE, FALSE, FALSE)

OkDict == Out(TRUE, DictA, "", TRUE)
OkStr == Out(TRUE, StrA, "text/html", TRUE)
OkPlain == Out(TRUE, StrA, "", TRUE)
Fail == Out(FALSE, NoBody, "", TRUE)
OkRefreshFails == Out(TRUE, DictA, "", FALSE)

\* Spec: cached GETs and invalidating POSTs on two tenants, handlers that
\* may suspend
CacheReqs ==
    {Req(HCached, "get", NoSession, K1, FALSE, FALSE, b) :
        b \in {Sync(OkDict), Sync(OkPlain), Sync(Fail), Defer}}
    \cup {Req(HCached, "get", NoSession, K3, FALSE, FALSE, b) :
        b \in {Sync(OkDict), Defer}}
    \cup {Req(HInvalidate, "post", NoSession, k, TRUE, FALSE, b) :
        k \in {K1, K3}, b \in {Sync(OkDict), Defer}}
    \cup {Req(HInvalidate, "post", NoSession, K1, FALSE, FALSE, Sync(OkDict))}

CacheOuts == {OkDict, OkStr, Fail}

Next ==
    \/ \E req \in CacheReqs : Request(req)
    \/ \E i \in 1..MaxInflight, out \in CacheOuts : Resolve(i, out)

Spec == Init /\ [][Next]_vars

\* SpecScope: three keys on two tenants, cached GETs and invalidating calls
ScopeReqs ==
    {Req(HCached, "get", NoSession, k, FALSE, FALSE, b) :
        k \in Keys, b \in {Sync(OkDict), Sync(OkStr)}}
    \cup {Req(HInvalidate, "post", NoSession, k, TRUE, FALSE, b) :
        k \in {K1, K3}, b \in {Sync(Fail), Defer}}
    \cup {Req(HInvalidate, "post", NoSession, K1, FALSE, FALSE, Sync(OkDict))}
    \cup {Req(HInvalidate, "options", NoSession, k, FALSE, FALSE, Sync(OkDict)) :
        k \in {K2, K3}}

ScopeOuts == {OkDict, Fail}

NextScope ==
    \/ \E req \in ScopeReqs : Request(req)
    \/ \E i \in 1..MaxInflight, out \in ScopeOuts : Resolve(i, out)

SpecScope == Init /\ [][NextScope]_vars

\* SpecRefresh: non-GET calls to handlers that ask for an endpoint refresh
HRefresh == H({"any"}, FALSE, FALSE, TRUE, FALSE)
HBoth == H({"any"}, FALSE, TRUE, TRUE, FALSE)

RefreshReqs ==
    {Req(h, "post", NoSession, K1, TRUE, FALSE, b) :
        h \in {HRefresh, HBoth, HInvalidate},
        b \in {Sync(OkDict), Sync(OkRefreshFails), Sync(Fail), Defer}}
    \cup {Req(HRefresh, m, NoSession, K1, FALSE, FALSE, Sync(OkDict)) :
        m \in {"get", "post", "options"}}
    \cup {Req(HCached, "get", NoSession, K1, FALSE, FALSE, Sync(OkDict))}

RefreshOuts == {OkDict, OkRefreshFails, Fail}

NextRefresh ==
    \/ \E req \in RefreshReqs : Request(req)
    \/ \E i \in 1..MaxInflight, out \in RefreshOuts : Resolve(i, out)

SpecRefresh == Init /\ [][NextRefresh]_vars

\* SpecGate: every kind of chain, with and without session and token;
\* handlers answer at once
Wb1 == [role |-> "whistleblower", tid |-> 1]
Admin1 == [role |-> "admin", tid |-> 1]

GateHandlers ==
    {H(r, f[1], f[2], f[2], rt) :
        r \in {{"any"}, {"admin"}},
        f \in {<<TRUE, FALSE>>, <<FALSE, TRUE>>},
        rt \in BOOLEAN}

GateReqs ==
    {Req(h, m, s, K1, tu[1], tu[2], Sync(OkDict)) :
        h \in GateHandlers, m \in Methods, s \in {NoSession, Wb1, Admin1},
        tu \in {<<TRUE, FALSE>>, <<FALSE, TRUE>>, <<FALSE, FALSE>>}}

NextGate == \E req \in GateReqs : Request(req)

SpecGate == Init /\ [][NextGate]_vars

\* SpecAuth: every allowed-role set against every session and request tenant
AuthReqs ==
    {Req(H(r, FALSE, FALSE, FALSE, FALSE), "get", s, <<t, "p1", "en">>,
         FALSE, FALSE, Sync(OkDict)) :
        r \in SUBSET RoleNames, s \in AllSessions \cup {NoSession}, t \in Tenants}

NextAuth == \E req \in AuthReqs : Request(req)

SpecAuth == Init /\ [][NextAuth]_vars

\* SpecRate: a whistleblower session, two staff sessions and callers without
\* session posting while time passes
HPlain == H({"any"}, FALSE, FALSE, FALSE, FALSE)
Receiver2 == [role |-> "receiver", tid |-> 2]

RateReqs ==
    {Req(HPlain, "post", s, K1, FALSE, FALSE, Sync(OkDict)) :
        s \in {Wb1, Admin1, Receiver2}}
    \cup {Req(HPlain, "post", NoSession, K1, tk, FALSE, Sync(OkDict)) :
        tk \in BOOLEAN}

NextRate ==
    \/ \E req \in RateReqs : Request(req)
    \/ Tick

SpecRate == Init /\ [][NextRate]_vars

\* SpecLife: one call per instant on tenant 1: a cacheable GET at instants 0
\* and 1, a non-GET call to an invalidating handler at instant 2, the GET
\* again at instant 3
LifeGets ==
    {Req(HCached, "get", s, K1, FALSE, FALSE, Sync(o)) :
        s \in {NoSession, Admin1}, o \in {OkDict, OkStr, OkPlain}}

LifeMutations ==
    {Req(h, m, NoSession, k, TRUE, FALSE, Sync(o)) :
        h \in {HInvalidate, HBoth}, m \in {"post", "options"},
        k \in {K1, K2}, o \in {OkDict, Fail}}

NextLife ==
    \/ /\ now \in {0, 1, 3}
       /\ last.kind = "init" \/ last.at < now
       /\ \E req \in LifeGets : Request(req)
    \/ /\ now = 2
       /\ last.at < now
       /\ \E req \in LifeMutations : Request(req)
    \/ /\ last.kind # "init" /\ last.at = now /\ now < 3
       /\ Tick

SpecLife == Init /\ [][NextLife]_vars

\* SpecShare: a cacheable GET restricted to staff and whistleblowers, asked by
\* sessions of different roles and tenants and without session, with and
\* without a query string; what the handler would answer depends on the caller
HPriv == H({"user", "whistleblower"}, TRUE, FALSE, FALSE, FALSE)
Receiver1 == [role |-> "receiver", tid |-> 1]
Queries == {"", "x=1"}

ShareGets ==
    {WithQuery(Req(HPriv, "get", so[1], k, FALSE, FALSE, Sync(so[2])), q) :
        so \in {<<Admin1, OkDict>>, <<Wb1, OkStr>>, <<Receiver1, OkPlain>>,
                <<Receiver2, OkDict>>, <<NoSession, OkDict>>},
        k \in {K1, K2}, q \in Queries}

ShareReqs ==
    ShareGets \cup {Req(HInvalidate, "post", Admin1, K1, FALSE, FALSE, Sync(OkDict))}

NextShare == \E req \in ShareReqs : Request(req)

SpecShare == Init /\ [][NextShare]_vars

\* SpecCount: a whistleblower session posting to a handler that may suspend,
\* the suspended calls resuming between later evaluations, while time passes
CountReqs ==
    {Req(HPlain, "post", Wb1, K1, FALSE, FALSE, b) : b \in {Sync(OkDict), Defer}}

CountOuts == {OkDict, Fail}

NextCount ==
    \/ \E req \in CountReqs : Request(req)
    \/ \E i \in 1..MaxInflight, out \in CountOuts : Resolve(i, out)
    \/ Tick

SpecCount == Init /\ [][NextCount]_vars

\* ------------------------------------------------------------------ claims
ThroughCache(o) == o.lookup # ""

\* the step is a Request, and last' is what it observed
RequestStep == last'.kind = "request" /\ now' = now

\* suspended handler invocations of cache misses for key k, started since the
\* last invalidation of k's tenant
MissesInFlight(k) ==
    {j \in 1..Len(inflight) :
        inflight[j].lookup = "miss" /\ Key(inflight[j].req) = k /\ ~inflight[j].stale}

\* C1: single-flight: for every cache key, at most one handler invocation of a
\* cache miss is in flight between two invalidations of the key's tenant.
C1_SingleFlight == \A k \in Keys : Cardinality(MissesInFlight(k)) <= 1

\* C2: a GET through the cache layer that starts after a GET for the same key
\* has completed successfully, with no invalidation of the tenant since, is a
\* hit: it returns the content-type and body that earlier GET stored and
\* returned, and does not invoke the handler.
C2_CacheIdempotence ==
    [][(/\ RequestStep
        /\ ThroughCache(last')
        /\ Key(last'.req) \in DOMAIN returned)
       => (/\ last'.lookup = "hit"
           /\ last'.status = "ok"
           /\ ~Has(last'.trace, "handler")
           /\ last'.hdr = returned[Key(last'.req)].ctype
           /\ last'.body = returned[Key(last'.req)].body)]_vars

C2_Witness ==
    /\ last.kind = "request" /\ last.lookup = "hit" /\ last.status = "ok"
    /\ last.body = JsonDumps(DictA) /\ last.hdr = "application/json"
    /\ ~Has(last.trace, "handler")

C10_InvalidationScope ==
    [][(/\ RequestStep
        /\ last'.req.method # "get"
        /\ last'.req.h.invalidate_cache
        /\ last'.status # "rejected")
       => \A k \in Keys :
            IF k[1] = last'.req.tid
            THEN k \notin DOMAIN cache'
            ELSE /\ (k \in DOMAIN cache') = (k \in DOMAIN cache)
                 /\ k \in DOMAIN cache => cache'[k] = cache[k]]_vars

C10_Witness ==
    /\ last.kind = "request" /\ last.req.method = "post" /\ last.req.tid = 1
    /\ last.req.path = "p1" /\ Has(last.trace, "Cache.invalidate")
    /\ K3 \in DOMAIN cache /\ K1 \notin DOMAIN cache /\ K2 \notin DOMAIN cache

\* positions of event e in a trace
Positions(seq, e) == {j \in 1..Len(seq) : seq[j] = e}

Completed(o) == o.kind \in {"request", "resolve"} /\ o.status \in {"ok", "failed"}

\* a completed, admitted non-GET call to a refresh-enabled handler whose
\* handler produced a result
RefreshCase(o) ==
    /\ Completed(o)
    /\ o.req.method # "get"
    /\ o.req.h.refresh_connection_endpoints
    /\ Has(o.trace, "handler")
    /\ o.out.ok

RefreshedOnceAfterHandler(o) ==
    LET r == Positions(o.trace, "State.refresh_connection_endpoints")
    IN  /\ Cardinality(r) = 1
        /\ \A j \in r : \A q \in Positions(o.trace, "handler") \cup
                                 Positions(o.trace, "resolved") : q < j

\* C7: every admitted non-GET call to a handler with refresh_connection_endpoints
\* triggers the endpoint refresh exactly once, after the handler has resolved,
\* and (the refresh having run) returns the handler's result unchanged.
C7_RefreshOnce ==
    RefreshCase(last)
        => /\ RefreshedOnceAfterHandler(last)
           /\ last.out.refresh_ok => (last.status = "ok" /\ last.body = last.out.data)

\* The same, for the deployments where the API cache setting is on: the only
\* ones in which decorate_method installs the refresh wrapper.
C7_RefreshOnceWhenCacheEnabled == enable_api_cache => C7_RefreshOnce

C7_Witness ==
    /\ enable_api_cache /\ RefreshCase(last) /\ last.kind = "resolve"
    /\ RefreshedOnceAfterHandler(last) /\ last.body = DictA

\* C8: when the handler of a refresh-enabled non-GET call has succeeded and the
\* refresh raises, the caller still receives the handler's result.
C8_RefreshFailureNotMasking ==
    (/\ RefreshCase(last)
     /\ Has(last.trace, "State.refresh_connection_endpoints")
     /\ ~last.out.refresh_ok)
        => (last.status = "ok" /\ last.body = last.out.data)

\* a rate-limiter evaluation of a whistleblower session, just performed
Evaluated(o) ==
    /\ o.kind = "request" /\ o.at = now
    /\ RateLimited(o.req) /\ Has(o.trace, "rate_limit")

Throttled(o) ==
    /\ o.status = "rejected" /\ o.error = "NotAuthenticated"
    /\ o.trace[Len(o.trace)] = "rate_limit"

\* C3 as stated: whenever more than 5 requests of a whistleblower session fall
\* within a 1-second sub-window (here: at one instant) the request that makes
\* them more than 5 is rejected with NotAuthenticated.
C3_AnySubWindow ==
    (Evaluated(last) /\ burst[last.req.session] > RateLimitThreshold)
        => Throttled(last)

\* C3 amended: a request is rejected by the rate limiter exactly when the count
\* since the last window reset exceeds 5 times max(seconds since the reset, 1);
\* so more than 5 requests within the first second after a reset are rejected
\* from the sixth on.
C3_RateOverWindow ==
    Evaluated(last) =>
        LET s == ratelimit[last.req.session]
            elapsed == now - s.time
        IN  /\ s.count >= burst[last.req.session]
            /\ Throttled(last)
                 <=> (s.count > RateLimitThreshold * Max(elapsed, RateLimitMinPeriod))
            /\ (elapsed <= 1 /\ s.count > RateLimitThreshold) => Throttled(last)
            /\ ~Throttled(last) => Has(last.trace, "handler")

C3_Witness ==
    /\ Evaluated(last) /\ Throttled(last)
    /\ ratelimit[last.req.session].time = RateLimitWindow + 1
    /\ now = RateLimitWindow + 2
    /\ ratelimit[last.req.session].count = RateLimitThreshold + 1

\* the authorizer's reference predicate
Permitted(roles, session, tid) ==
    IF "any" \in roles THEN TRUE
    ELSE IF session = NoSession THEN FALSE
    ELSE IF session.tid # tid THEN FALSE
    ELSE \/ session.role \in roles
         \/ ("user" \in roles /\ session.role \in StaffRoles)

\* C4: a call that reaches the authorizer goes on iff the reference predicate
\* holds of (allowed roles, session, request tenant); otherwise it is rejected
\* with NotAuthenticated and the wrapped function is not called.
C4_AuthorizerDecision ==
    (last.kind = "request" /\ Has(last.trace, "authentication")) =>
        LET ok == Permitted(last.req.h.check_roles, last.req.session, last.req.tid)
        IN  /\ ok => (last.status = "ok" /\ Has(last.trace, "handler"))
            /\ ~ok => /\ last.status = "rejected"
                      /\ last.error = "NotAuthenticated"
                      /\ last.trace[Len(last.trace)] = "authentication"
            /\ (last.req.session = NoSession \/ last.req.session.tid # last.req.tid)
                 => (last.status = "ok" <=> "any" \in last.req.h.check_roles)

C4_Witness ==
    /\ last.kind = "request" /\ last.status = "rejected"
    /\ last.req.h.check_roles = {"user", "whistleblower"}
    /\ last.req.session = [role |-> "receiver", tid |-> 2]
    /\ last.req.tid = 1

\* the token gate is part of the method's chain
Gated(req) == req.method \notin {"get", "options"} \/ req.h.require_token

\* C5: a call is rejected with the token failure, before authentication and the
\* handler, exactly when the gate applies to the method and the request has no
\* session, no token and does not target the token-issuance path.
C5_TokenGate ==
    last.kind = "request" =>
        LET missing == /\ last.req.session = NoSession
                       /\ ~last.req.token
                       /\ ~last.req.uri_token
        IN  /\ (Gated(last.req) /\ missing)
                 => /\ last.status = "rejected" /\ last.error = "TokenFailure"
                    /\ ~Has(last.trace, "authentication")
                    /\ ~Has(last.trace, "handler")
            /\ last.error = "TokenFailure" => (Gated(last.req) /\ missing)

C5_Witness ==
    /\ last.kind = "request" /\ last.error = "TokenFailure"
    /\ last.req.method = "get" /\ last.req.h.require_token

\* position of an event in the order rate limit, token check, authorization,
\* cache lookup / invalidation / refresh, handler, then what follows the handler
Rank(e) ==
    CASE e = "rate_limit" -> 1
      [] e = "require_token" -> 2
      [] e = "authentication" -> 3
      [] e \in {"cache_get", "cache_invalidate", "Cache.invalidate",
                "refresh_connection_endpoints"} -> 4
      [] e = "handler" -> 5
      [] OTHER -> 6

InOrder(trace) ==
    \A a, b \in 1..Len(trace) : a < b => Rank(trace[a]) <= Rank(trace[b])

\* C6: the layers of a call run in the order rate limit, token check,
\* authorization, cache lookup / invalidation / refresh, handler; every layer of
\* the chain runs unless an earlier one rejected (or a cache hit answered); a
\* rejected call ends at the rejecting layer: no handler, no cache lookup, store
\* or invalidation, no refresh, and the cache and the suspended calls unchanged.
C6_LayerOrder ==
    [][RequestStep =>
        /\ InOrder(last'.trace)
        /\ last'.status # "rejected"
             => \A j \in 1..Len(last'.chain) : Has(last'.trace, last'.chain[j])
        /\ last'.status = "rejected"
             => /\ \A j \in 1..Len(last'.trace) : Rank(last'.trace[j]) <= 3
                /\ \A j \in 1..Len(last'.chain) :
                      Rank(last'.chain[j]) < Rank(last'.trace[Len(last'.trace)])
                          => Has(last'.trace, last'.chain[j])
                /\ cache' = cache
                /\ inflight' = inflight
                /\ returned' = returned]_vars

C6_Witness ==
    /\ last.kind = "request" /\ last.status = "rejected"
    /\ last.trace = <<"rate_limit", "require_token", "authentication">>
    /\ last.req.h.cache_resource /\ last.req.method = "get"
    /\ K1 \in DOMAIN cache

\* a suspended call has been resumed by this step
ResolveStep == Len(inflight') < Len(inflight)

\* C11: an admitted non-GET call to a cache-invalidating handler drops the
\* tenant's entries before the handler is invoked, so they are gone whether
\* the handler returns, fails or suspends; no entry is dropped once the
\* handler has been invoked, neither later in the call nor when a suspended
\* call is resumed.
C11_InvalidateBeforeHandler ==
    [][/\ (/\ RequestStep
           /\ last'.req.method # "get"
           /\ last'.req.h.invalidate_cache
           /\ last'.status # "rejected")
          => /\ last'.status \in {"ok", "failed", "pending"}
             /\ \A k \in DOMAIN cache' : k[1] # last'.req.tid
             /\ Has(last'.trace, "handler")
             /\ enable_api_cache => Has(last'.trace, "Cache.invalidate")
             /\ \A p \in Positions(last'.trace, "Cache.invalidate"),
                   q \in Positions(last'.trace, "handler") : p < q
       /\ ResolveStep => DOMAIN cache \subseteq DOMAIN cache']_vars

C11_Witness ==
    /\ last.kind = "request" /\ last.req.method = "post"
    /\ last.req.h.invalidate_cache /\ last.req.tid = 1
    /\ last.status = "failed" /\ last.error = "HandlerError"
    /\ Positions(last.trace, "Cache.invalidate") # {}
    /\ K3 \in DOMAIN cache /\ K1 \notin DOMAIN cache /\ K2 \notin DOMAIN cache

\* C12: with the cache layer installed, a cacheable GET and a non-GET call to
\* a different, cache-invalidating handler of the same tenant, run one after
\* another: the first GET invokes the handler and stores its body; the second
\* GET for the same key returns that stored body without invoking the
\* handler; the non-GET call clears the entry; the next GET invokes the
\* handler again.
C12_CacheLifeCycle ==
    [][(RequestStep /\ enable_api_cache) =>
        CASE now = 0 ->
                /\ last'.lookup = "miss" /\ Has(last'.trace, "handler")
                /\ last'.status = "ok"
                /\ K1 \in DOMAIN cache' /\ cache'[K1].body = last'.body
          [] now = 1 ->
                /\ last'.lookup = "hit" /\ ~Has(last'.trace, "handler")
                /\ last'.status = "ok"
                /\ last'.body = last.body /\ last'.hdr = last.stored.ctype
                /\ cache' = cache
          [] now = 2 ->
                /\ last'.status # "rejected"
                /\ K1 \notin DOMAIN cache'
          [] OTHER ->
                /\ last'.lookup = "miss" /\ Has(last'.trace, "handler")
                /\ last'.status = "ok"
                /\ K1 \in DOMAIN cache' /\ cache'[K1].body = last'.body]_vars

C12_Witness ==
    /\ enable_api_cache /\ now = 3 /\ last.at = 3
    /\ last.kind = "request" /\ last.req.method = "get"
    /\ last.lookup = "miss" /\ Has(last.trace, "handler")
    /\ K1 \in DOMAIN cache /\ cache[K1].body = last.body

\* the request has no session, or a session of another role than whistleblower
Exempt(req) == req.session = NoSession \/ req.session.role # "whistleblower"

\* C13: a request without session, or with a session whose role is not
\* whistleblower, is never rejected by the rate limiter, however many such
\* requests arrive, and the rate limiter leaves every session's window start
\* and counter as they were.
C13_ExemptFromRateLimit ==
    [][(RequestStep /\ Exempt(last'.req))
        => /\ ~Throttled(last')
           /\ ratelimit' = ratelimit
           /\ Has(last'.chain, "rate_limit") => Has(last'.trace, "require_token")]_vars

C13_Witness ==
    /\ last.kind = "request" /\ last.at = now /\ now > 0
    /\ last.req.session = Admin1 /\ last.status = "ok"
    /\ last.trace[1] = "rate_limit"
    /\ ratelimit[Admin1] = [time |-> 0, count |-> 0]
    /\ ratelimit[Wb1].count > RateLimitThreshold

\* the step is a rate-limiter evaluation of a whistleblower session
EvaluationStep ==
    RequestStep /\ ~Exempt(last'.req) /\ Has(last'.trace, "rate_limit")

\* C14: the rate limiter writes the session state before it decides: the
\* counter is incremented (after the optional reset) before the comparison,
\* so a rejected request leaves the counter incremented too, and a request
\* sent while the session is throttled counts against the same window.
C14_CountedBeforeDecision ==
    [][EvaluationStep =>
        LET s == last'.req.session
            before == IF now > ratelimit[s].time + RateLimitWindow
                      THEN 0 ELSE ratelimit[s].count
        IN  /\ ratelimit'[s].count = before + 1
            /\ Throttled(last') =>
                  /\ ratelimit'[s].count > RateLimitThreshold
                  /\ ~Has(last'.trace, "handler")
            /\ (Throttled(last) /\ last.req.session = s
                    /\ now <= ratelimit[s].time + RateLimitWindow)
                 => /\ ratelimit'[s].time = ratelimit[s].time
                    /\ ratelimit'[s].count = ratelimit[s].count + 1]_vars

C14_Witness ==
    /\ Evaluated(last) /\ Throttled(last)
    /\ ratelimit[last.req.session].time = 0 /\ now = 1
    /\ ratelimit[last.req.session].count = RateLimitThreshold + 2

\* what the caller of req would receive in the current state
Response(req) ==
    LET chain == DecorateMethod(req.h, req.method, enable_api_cache)
        ctx == Run(chain, Len(chain), Ctx0, req, now)
    IN  [status |-> ctx.status, hdr |-> ctx.hdr, body |-> ctx.body]

\* C15: once an entry is stored, two authorized GET requests that agree on
\* (tenant, path, language) receive the same content-type and body, the
\* stored ones, whatever their session, role and query string; and a stored
\* body is returned only to a request that has passed authorization.
C15_KeyDeterminesResponse ==
    /\ \A r1, r2 \in ShareGets :
          (/\ Key(r1) = Key(r2) /\ Key(r1) \in DOMAIN cache
           /\ Permitted(r1.h.check_roles, r1.session, r1.tid)
           /\ Permitted(r2.h.check_roles, r2.session, r2.tid))
          => /\ Response(r1) = Response(r2)
             /\ Response(r1) = [status |-> "ok", hdr |-> cache[Key(r1)].ctype,
                                body |-> cache[Key(r1)].body]
    /\ \A r \in ShareGets :
          ~Permitted(r.h.check_roles, r.session, r.tid)
          => Response(r) = [status |-> "rejected", hdr |-> "", body |-> NoBody]
    /\ (last.kind = "request" /\ last.lookup = "hit")
          => /\ Permitted(last.req.h.check_roles, last.req.session, last.req.tid)
             /\ \A p \in Positions(last.trace, "authentication"),
                   q \in Positions(last.trace, "cache_get") : p < q
             /\ Has(last.trace, "authentication")

C15_Witness ==
    /\ last.kind = "request" /\ last.lookup = "hit" /\ last.status = "ok"
    /\ last.req.session = Wb1 /\ last.req.query = "x=1"
    /\ last.req.beh.out = OkStr
    /\ last.body = JsonDumps(DictA) /\ last.hdr = "application/json"

\* the step resumes the i-th suspended call
Resumes(i) ==
    /\ i \in 1..Len(inflight)
    /\ ResolveStep
    /\ last'.kind = "resolve" /\ last'.req = inflight[i].req
    /\ inflight' = [j \in 1..(Len(inflight) - 1) |->
                       IF j < i THEN inflight[j] ELSE inflight[j + 1]]

\* C16: once the non-GET calls to cache-invalidating handlers on tenant T have
\* completed, every cache entry of T comes from a handler invocation that
\* started after their invalidation step: a GET miss that was in flight while
\* T was invalidated stores nothing once no such call is left in flight.
C16_NoStaleEntry ==
    [][\A i \in 1..Len(inflight) :
          (/\ Resumes(i)
           /\ inflight[i].lookup = "miss" /\ inflight[i].stale
           /\ \A j \in 1..Len(inflight') :
                 ~(/\ inflight'[j].req.tid = inflight[i].req.tid
                   /\ Has(inflight'[j].trace, "Cache.invalidate")))
          => ~Has(last'.trace, "Cache.set")]_vars

\* C17: the rate limiter is installed exactly when the token gate is: for a
\* GET or OPTIONS of a handler without require_token neither layer is in the
\* pipeline, the call is never throttled and changes no session's rate-limit
\* state; for every other method both are installed, the rate limiter
\* outermost and the token gate right inside it.
C17_RateLimiterWithTokenGate ==
    [][RequestStep =>
        LET c == last'.chain
            r == last'.req
            open == r.method \in {"get", "options"} /\ ~r.h.require_token
        IN  /\ Has(c, "rate_limit") <=> Has(c, "require_token")
            /\ Has(c, "rate_limit") <=> ~open
            /\ open => /\ ~Has(last'.trace, "rate_limit")
                        /\ ~Has(last'.trace, "require_token")
                        /\ ~Throttled(last')
                        /\ ratelimit' = ratelimit
            /\ ~open => /\ c[Len(c)] = "rate_limit"
                         /\ c[Len(c) - 1] = "require_token"
                         /\ Cardinality(Positions(c, "rate_limit")) = 1
                         /\ Cardinality(Positions(c, "require_token")) = 1
                         /\ last'.trace[1] = "rate_limit"]_vars

C17_Witness ==
    /\ last.kind = "request" /\ last.req.method = "get"
    /\ ~last.req.h.require_token /\ last.req.session = Wb1
    /\ last.status = "ok" /\ last.trace[1] = "authentication"
    /\ RateLimitExceeded(ratelimit[Wb1], now)

\* C18: a request of a whistleblower session evaluated more than 30 seconds
\* after the current window start resets the window to that instant and the
\* counter to 0 before counting itself, so it is not rejected by the rate
\* limiter, however many requests the old window had counted.
C18_RecoveryAfterWindow ==
    [][\A s \in AllSessions :
          (/\ EvaluationStep /\ last'.req.session = s
           /\ now > ratelimit[s].time + RateLimitWindow)
          => /\ ratelimit'[s] = [time |-> now, count |-> 1]
             /\ ~Throttled(last')
             /\ Has(last'.trace, "require_token")]_vars

C18_Witness ==
    /\ Evaluated(last) /\ last.status = "ok"
    /\ now = RateLimitWindow + 1
    /\ ratelimit[last.req.session] = [time |-> now, count |-> 1]

\* C19: reset, increment and comparison of one evaluation run without a
\* suspension point, so no update is lost: after each rate-limiter
\* evaluation the session's counter equals the number of evaluations on that
\* session since the last window reset, at least 1, and the window start is
\* at most 30 seconds before the evaluation time; calls suspended in their
\* handler and resumed in between change nothing of it.
C19_NoLostUpdate ==
    /\ Evaluated(last) =>
          LET s == last.req.session
          IN  /\ ratelimit[s].count = evals[s]
              /\ ratelimit[s].count >= 1
              /\ ratelimit[s].time <= last.at
              /\ last.at - ratelimit[s].time <= RateLimitWindow
    /\ \A s \in AllSessions : ratelimit[s].count = evals[s]

C19_Witness ==
    /\ Evaluated(last) /\ Len(inflight) = MaxInflight
    /\ \A j \in 1..Len(inflight) : inflight[j].req.session = last.req.session
    /\ ratelimit[last.req.session].count = RateLimitThreshold
    /\ ratelimit[last.req.session].time = RateLimitWindow + 1
    /\ now = ratelimit[last.req.session].time + 1

====
